---------------------------- MODULE Spec2Model ----------------------------
(***************************************************************************)
(* The news digest bot: the per-domain article pipelines of the finance,   *)
(* sports and tech agents (query generation, search-API and RSS fetch,     *)
(* deduplication, recency ordering, parallel classification, selection,    *)
(* summarization), the shared deduplication helper, and the process that   *)
(* runs the digest cycle at startup and on an interval.                    *)
(***************************************************************************)
EXTENDS Integers, Sequences, FiniteSets, TLC

VARIABLES
    domain,            \* which agent runs: "finance", "sports" or "tech"
    pc,                \* position of the run inside run_<domain>_agent
    queries,           \* the local `queries`
    newsapi_articles,  \* the local `newsapi_articles`
    rss_articles,      \* the local `rss_articles`
    articles,          \* `articles` (finance, sports) / `combined` (tech)
    futures,           \* per submitted task: "pending", "yes", "no", "exc"
    collected,         \* indices of the futures as_completed has yielded, in order
    relevant,          \* the local `relevant`
    final_articles,    \* the local `final_articles`
    result,            \* what the run returned: "none" while running
    log,               \* the external calls made by the run, in order
    arg,               \* argument of a function applied on its own
    ret,               \* what the function made of arg
    main_pc,           \* position of the process inside main()
    scheduler,         \* the BlockingScheduler of main(): its jobs, whether it runs
    _scheduler,        \* the module-level BackgroundScheduler of core/scheduler.py
    cycle,             \* the invocation of run_news_digest in flight, if any
    runs               \* the digest cycles that have ended: who started each, how it ended

appVars == <<main_pc, scheduler, _scheduler, cycle, runs>>

vars == <<domain, pc, queries, newsapi_articles, rss_articles, articles,
          futures, collected, relevant, final_articles, result, log, arg, ret,
          appVars>>

pipeVars == <<domain, pc, queries, newsapi_articles, rss_articles, articles,
              futures, collected, relevant, final_articles, result, log>>

\* a scheduler object with no job that has not been started
NewScheduler == [jobs |-> {}, running |-> FALSE]

NoCycle == [state |-> "idle", by |-> "nobody"]

\* the process before main() is entered
NotStarted ==
    /\ main_pc = "not_started"
    /\ scheduler = NewScheduler
    /\ _scheduler = NewScheduler
    /\ cycle = NoCycle
    /\ runs = <<>>

---------------------------------------------------------------------------
(* Program constants                                                       *)

MAX_NEWSAPI == 10

MAX_RSS == 10

FINAL_ARTICLES == 5

MAX_LLM_WORKERS == 5

(* Bounds of the model                                                     *)

\* longest model response to the query prompt, in tokens
MaxTokens == 5

\* most articles one search-API call returns
MaxApi == 1

\* most entries the RSS feed holds
MaxFeed == 2

\* longest input list of the deduplication functions
MaxDedupLen == 3

---------------------------------------------------------------------------
(* Values                                                                  *)

\* Python's None
None == "None"

\* `not value` for a string-or-None value
Falsy(v) == v \in {None, ""}

\* a raw `published` value: a date string (naive or with a UTC offset),
\* text that is no date, or None
Date(d, tz) == [kind |-> "date", day |-> d, aware |-> tz]

NoDate == [kind |-> "none", day |-> 0, aware |-> FALSE]

Garbage == [kind |-> "text", day |-> 0, aware |-> FALSE]

\* datetime.min, a naive datetime
DatetimeMin == [ts |-> 0, aware |-> FALSE]

\* date_parser.parse inside try/except: the parsed datetime (aware when the
\* text carries an offset), datetime.min when parse raises (None or no date)
parse_date_safe(p) ==
    IF p.kind = "date" THEN [ts |-> p.day, aware |-> p.aware] ELSE DatetimeMin

\* str.strip on the titles of the model
Strip(s) ==
    CASE s = " a " -> "a"
      [] s = " b " -> "b"
      [] OTHER -> s

\* normalize_article raises AttributeError when the raw title is None:
\* a.get("title", "") returns the None that is stored under the key
NormalizeRaises(a) == a.title = None

\* normalize_article(a, source), for a raw record whose title is a string;
\* a raw record holds None under every key it lacks
normalize_article(a, source) ==
    [title     |-> Strip(a.title),
     url       |-> IF Falsy(a.url) THEN a.link ELSE a.url,
     published |-> a.published,
     source    |-> source]

---------------------------------------------------------------------------
(* Deduplication                                                           *)

\* combined[a["url"]] = a on a dict kept as the list of its values in
\* insertion order: an existing key keeps its place and takes the new value
DictPut(d, a) ==
    IF \E i \in 1..Len(d) : d[i].url = a.url
    THEN [i \in 1..Len(d) |-> IF d[i].url = a.url THEN a ELSE d[i]]
    ELSE Append(d, a)

RECURSIVE CombineFrom(_, _)
CombineFrom(d, xs) ==
    IF xs = <<>> THEN d
    ELSE CombineFrom(IF Falsy(Head(xs).url) THEN d ELSE DictPut(d, Head(xs)),
                     Tail(xs))

\* a first-write-wins dict: a later record never replaces an earlier one
RECURSIVE CombineKeepFirst(_, _)
CombineKeepFirst(d, xs) ==
    IF xs = <<>> THEN d
    ELSE CombineKeepFirst(
             IF Falsy(Head(xs).url) \/ \E i \in 1..Len(d) : d[i].url = Head(xs).url
             THEN d ELSE Append(d, Head(xs)),
             Tail(xs))

combine_dedupe_first(xs) == CombineKeepFirst(<<>>, xs)

\* the inline "Combine + dedupe" of run_finance_agent and run_sports_agent:
\* list(combined.values()) after the loop
combine_dedupe(xs) == CombineFrom(<<>>, xs)

RECURSIVE UniqueFrom(_, _, _)
UniqueFrom(seen, unique, xs) ==
    IF xs = <<>> THEN unique
    ELSE LET url == Head(xs).url IN
         IF ~Falsy(url) /\ url \notin seen
         THEN UniqueFrom(seen \cup {url}, Append(unique, Head(xs)), Tail(xs))
         ELSE UniqueFrom(seen, unique, Tail(xs))

\* the loop without its `if url` test: a record without url is kept
RECURSIVE UniqueKeepEmpty(_, _, _)
UniqueKeepEmpty(seen, unique, xs) ==
    IF xs = <<>> THEN unique
    ELSE LET url == Head(xs).url IN
         IF url \notin seen
         THEN UniqueKeepEmpty(seen \cup {url}, Append(unique, Head(xs)), Tail(xs))
         ELSE UniqueKeepEmpty(seen, unique, Tail(xs))

deduplicate_keep_empty(xs) == UniqueKeepEmpty({}, <<>>, xs)

\* tech_agent.deduplicate
deduplicate(xs) == UniqueFrom({}, <<>>, xs)

\* utils.dedup.deduplicate_articles with key = "url"
deduplicate_articles(xs) == UniqueFrom({}, <<>>, xs)

---------------------------------------------------------------------------
(* Sequences                                                               *)

RECURSIVE SeqsOfLen(_, _)
SeqsOfLen(S, n) ==
    IF n = 0 THEN {<<>>}
    ELSE {Append(xs, x) : xs \in SeqsOfLen(S, n - 1), x \in S}

SeqsUpTo(S, n) == UNION {SeqsOfLen(S, k) : k \in 0..n}

Min(a, b) == IF a <= b THEN a ELSE b

\* a slice that runs one record past n
TakeOneMore(xs, n) == SubSeq(xs, 1, Min(Len(xs), n + 1))

\* xs[:n]
Take(xs, n) == SubSeq(xs, 1, Min(Len(xs), n))

RECURSIVE Flatten(_)
Flatten(xss) == IF xss = <<>> THEN <<>> ELSE Head(xss) \o Flatten(Tail(xss))

---------------------------------------------------------------------------
(* Query generation                                                        *)

\* A model response is a sequence of tokens: the brackets, the comma, a JSON
\* string literal "q" and a word "w" that is no JSON.
Tokens == {"[", "]", ",", "q", "w"}

\* llm.invoke either raises or returns a response
LlmQueryCalls ==
    {[ok |-> FALSE, content |-> <<>>]}
        \cup {[ok |-> TRUE, content |-> t] : t \in SeqsUpTo(Tokens, MaxTokens)}

\* re.search(r"\[.*\]", text, re.DOTALL): from the leftmost "[" that has a
\* "]" after it to the last "]" (greedy); <<>> when there is no match
RegexSearchArray(t) ==
    LET opens  == {i \in 1..Len(t) : t[i] = "["}
        closes == {j \in 1..Len(t) : t[j] = "]"}
        starts == {i \in opens : \E j \in closes : j > i}
    IN  IF starts = {} THEN <<>>
        ELSE LET i == CHOOSE x \in starts : \A y \in starts : x <= y
                 j == CHOOSE x \in closes : \A y \in closes : y <= x
             IN  SubSeq(t, i, j)

\* json.loads on a token text: JsonValue(t, i) is the index after the JSON
\* value that starts at t[i], 0 when there is none; JsonItems(t, i, n) parses
\* the rest of an array whose n-th element starts at t[i] and gives
\* <<index after the closing bracket, number of elements>>
RECURSIVE JsonValue(_, _), JsonItems(_, _, _)
JsonValue(t, i) ==
    IF i > Len(t) THEN 0
    ELSE IF t[i] = "q" THEN i + 1
    ELSE IF t[i] = "[" THEN
        IF i + 1 <= Len(t) /\ t[i + 1] = "]" THEN i + 2
        ELSE JsonItems(t, i + 1, 1)[1]
    ELSE 0

JsonItems(t, i, n) ==
    LET j == JsonValue(t, i)
    IN  IF j = 0 \/ j > Len(t) THEN <<0, 0>>
        ELSE IF t[j] = "]" THEN <<j + 1, n>>
        ELSE IF t[j] = "," THEN JsonItems(t, j + 1, n + 1)
        ELSE <<0, 0>>

\* json.loads(match.group()) for a text that starts with "[":
\* [ok |-> parsed, n |-> length of the parsed list]
JsonLoadsArray(t) ==
    IF Len(t) >= 2 /\ t[2] = "]"
    THEN [ok |-> Len(t) = 2, n |-> 0]
    ELSE LET r == JsonItems(t, 2, 1)
         IN  [ok |-> r[1] = Len(t) + 1, n |-> IF r[1] = Len(t) + 1 THEN r[2] ELSE 0]

\* the parsed list: its elements are the generated queries
ParsedQueries(n) == [i \in 1..n |-> "q"]

FallbackQuery(d) ==
    CASE d = "finance" -> <<"Infosys stock news">>
      [] d = "sports"  -> <<"Australia Cricket news">>
      [] d = "tech"    -> <<"Artificial Intelligence news">>

Raised == [raised |-> TRUE, queries |-> <<>>]

Returned(qs) == [raised |-> FALSE, queries |-> qs]

\* run_finance_agent, query generation: no try around invoke or json.loads,
\* no test of the parsed list
finance_generate_queries(call) ==
    IF ~call.ok THEN Raised
    ELSE LET m == RegexSearchArray(call.content)
         IN  IF m = <<>> THEN Returned(FallbackQuery("finance"))
             ELSE IF ~JsonLoadsArray(m).ok THEN Raised
             ELSE Returned(ParsedQueries(JsonLoadsArray(m).n))

\* sports_agent.generate_queries: invoke outside the try
sports_generate_queries(call) ==
    IF ~call.ok THEN Raised
    ELSE LET m == RegexSearchArray(call.content)
         IN  IF m # <<>> /\ JsonLoadsArray(m).ok /\ JsonLoadsArray(m).n > 0
             THEN Returned(ParsedQueries(JsonLoadsArray(m).n))
             ELSE Returned(FallbackQuery("sports"))

\* tech_agent.generate_queries: everything inside the try
tech_generate_queries(call) ==
    IF ~call.ok THEN Returned(FallbackQuery("tech"))
    ELSE LET m == RegexSearchArray(call.content)
         IN  IF m # <<>> /\ JsonLoadsArray(m).ok /\ JsonLoadsArray(m).n > 0
             THEN Returned(ParsedQueries(JsonLoadsArray(m).n))
             ELSE Returned(FallbackQuery("tech"))

generate_queries(d, call) ==
    CASE d = "finance" -> finance_generate_queries(call)
      [] d = "sports"  -> sports_generate_queries(call)
      [] d = "tech"    -> tech_generate_queries(call)

---------------------------------------------------------------------------
(* Fetch                                                                   *)

\* raw search-API articles: the API names the address "url"
ApiRaw ==
    [title : {" a ", None}, url : {"u1"}, link : {None},
     published : {Date(20240102, FALSE), Date(20240103, TRUE)}]

\* feed entries as fetch_rss_articles reads them: the address is "link"
RssRaw ==
    [title : {"b", None}, url : {None}, link : {"u1", "u2", None},
     published : {Date(20240105, FALSE), Date(20240101, FALSE), NoDate}]

\* one newsapi.get_everything call: it raises, or returns its articles
ApiResponses ==
    {[ok |-> FALSE, articles |-> <<>>]}
        \cup {[ok |-> TRUE, articles |-> xs] : xs \in SeqsUpTo(ApiRaw, MaxApi)}

\* feedparser.parse(url).entries; a feed that cannot be read has no entries
RssFeeds == SeqsUpTo(RssRaw, MaxFeed)

\* the records appended by the loop over one response before normalize_article
\* raises, if it does
RECURSIVE NormalizedPrefix(_, _)
NormalizedPrefix(xs, source) ==
    IF xs = <<>> \/ NormalizeRaises(Head(xs)) THEN <<>>
    ELSE <<normalize_article(Head(xs), source)>> \o NormalizedPrefix(Tail(xs), source)

\* a raw search-API article as the tech agent keeps it: fetch_newsapi_articles
\* of the tech agent extends the list with the API's own dicts, so the title,
\* the address and the publication date are the raw ones and there is no
\* source tag
TechApiRecord(a) ==
    [title |-> a.title, url |-> a.url, published |-> a.published, source |-> None]

\* the dict fetch_rss_articles of the tech agent builds from an entry: title,
\* summary and url only, the entry's publication date is not copied
TechRssRecord(e) ==
    [title     |-> IF e.title = None THEN "" ELSE e.title,
     url       |-> IF e.link = None THEN "" ELSE e.link,
     published |-> NoDate,
     source    |-> None]

\* what one query adds to `articles`: the try/except around the call and the
\* loop over its articles swallows every exception
ApiBatch(d, r) ==
    IF ~r.ok THEN <<>>
    ELSE IF d = "tech" THEN [i \in 1..Len(r.articles) |-> TechApiRecord(r.articles[i])]
    ELSE NormalizedPrefix(r.articles, "newsapi")

\* a search-API fetch that caps each query's batch instead of the whole list
fetch_newsapi_capped_per_query(d, resp) ==
    Flatten([i \in 1..Len(resp) |-> Take(ApiBatch(d, resp[i]), MAX_NEWSAPI)])

\* fetch_newsapi_articles(queries), resp[i] the outcome of the call for
\* queries[i]
fetch_newsapi_articles(d, resp) ==
    Take(Flatten([i \in 1..Len(resp) |-> ApiBatch(d, resp[i])]), MAX_NEWSAPI)

\* fetch_rss_articles: finance and sports call normalize_article outside any
\* try, tech builds the dict itself
fetch_rss_raises(d, feed) ==
    d # "tech" /\ \E i \in 1..Len(Take(feed, MAX_RSS)) : NormalizeRaises(feed[i])

fetch_rss_articles(d, feed) ==
    LET entries == Take(feed, MAX_RSS)
    IN  IF d = "tech" THEN [i \in 1..Len(entries) |-> TechRssRecord(entries[i])]
        ELSE NormalizedPrefix(entries, "rss")

---------------------------------------------------------------------------
(* Ranking                                                                 *)

\* comparing an offset-aware datetime with a naive one raises TypeError; a
\* sort of two or more keys compares every pair that ends up adjacent
SortRaises(xs) ==
    \E i, j \in 1..Len(xs) :
        parse_date_safe(xs[i].published).aware # parse_date_safe(xs[j].published).aware

\* x goes after every record whose key is not smaller
InsertDesc(sorted, x) ==
    LET k == parse_date_safe(x.published).ts
        before == {j \in 1..Len(sorted) : parse_date_safe(sorted[j].published).ts < k}
        pos == IF before = {} THEN Len(sorted) + 1
               ELSE CHOOSE j \in before : \A m \in before : j <= m
    IN  SubSeq(sorted, 1, pos - 1) \o <<x>> \o SubSeq(sorted, pos, Len(sorted))

RECURSIVE SortFrom(_, _)
SortFrom(sorted, xs) ==
    IF xs = <<>> THEN sorted ELSE SortFrom(InsertDesc(sorted, Head(xs)), Tail(xs))

\* articles.sort(key=lambda x: parse_date_safe(x.get("published")), reverse=True):
\* stable, most recent first
sort_by_recency(xs) == SortFrom(<<>>, xs)

---------------------------------------------------------------------------
(* Classification                                                          *)

\* responses of the model to the yes/no prompt, as character sequences
ClassifyResponses ==
    {<<"Y", "E", "S">>, <<" ", "y", "e", "s", ".">>, <<"N", "O">>,
     <<"N", "O", " ", "Y", "E", "S">>, <<>>}

LlmClassifyCalls ==
    {[ok |-> FALSE, content |-> <<>>]}
        \cup {[ok |-> TRUE, content |-> c] : c \in ClassifyResponses}

RECURSIVE LStrip(_)
LStrip(c) == IF c # <<>> /\ Head(c) = " " THEN LStrip(Tail(c)) ELSE c

RECURSIVE RStrip(_)
RStrip(c) ==
    IF c # <<>> /\ c[Len(c)] = " " THEN RStrip(SubSeq(c, 1, Len(c) - 1)) ELSE c

UpperChar(ch) ==
    CASE ch = "y" -> "Y"
      [] ch = "e" -> "E"
      [] ch = "s" -> "S"
      [] ch = "n" -> "N"
      [] ch = "o" -> "O"
      [] OTHER -> ch

Upper(c) == [i \in 1..Len(c) |-> UpperChar(c[i])]

\* res.content.strip().upper().startswith("YES")
StartsWithYes(c) ==
    LET u == Upper(RStrip(LStrip(c)))
    IN  Len(u) >= 3 /\ SubSeq(u, 1, 3) = <<"Y", "E", "S">>

\* sports_agent.classify_article: no try, the exception stays in the future
sports_classify_article(call) ==
    IF ~call.ok THEN "exc" ELSE IF StartsWithYes(call.content) THEN "yes" ELSE "no"

\* tech_agent.classify_article: an exception is a negative verdict
tech_classify_article(call) ==
    IF ~call.ok THEN "no" ELSE IF StartsWithYes(call.content) THEN "yes" ELSE "no"

classify_article(d, call) ==
    IF d = "sports" THEN sports_classify_article(call) ELSE tech_classify_article(call)

---------------------------------------------------------------------------
(* One run of run_finance_agent, run_sports_agent or run_tech_agent         *)

Domains == {"finance", "sports", "tech"}

HasClassifier(d) == d \in {"sports", "tech"}

NoOut == [fn |-> "none", out |-> <<>>]

\* the tech agent reads the feed before it generates queries
FirstStep(d) == IF d = "tech" THEN "fetch_rss" ELSE "generate"

\* what a run returned: "none" while it runs, "empty" for {}, "populated",
\* or "raised" with the step whose exception left run_<domain>_agent
Result(kind, step) == [kind |-> kind, at |-> step]

Running == Result("none", "")

Raise(step) ==
    /\ pc' = "done"
    /\ result' = Result("raised", step)

\* return {}
ReturnEmpty ==
    /\ pc' = "done"
    /\ result' = Result("empty", "")

Init ==
    /\ domain \in Domains
    /\ pc = FirstStep(domain)
    /\ queries = <<>>
    /\ newsapi_articles = <<>>
    /\ rss_articles = <<>>
    /\ articles = <<>>
    /\ futures = <<>>
    /\ collected = <<>>
    /\ relevant = <<>>
    /\ final_articles = <<>>
    /\ result = Running
    /\ log = {}
    /\ arg = <<>>
    /\ ret = NoOut
    /\ NotStarted

\* the most queries a response of MaxTokens tokens can hold
MaxQueries == (MaxTokens - 1) \div 2

\* Every outcome of the three calls that open a run, over all the responses
\* of their collaborators; computed once.
QueryOutcomes ==
    [d \in Domains |-> {generate_queries(d, call) : call \in LlmQueryCalls}]

NewsapiOutcomes ==
    [d \in Domains |->
        [n \in 0..MaxQueries |->
            {fetch_newsapi_articles(d, resp) : resp \in [1..n -> ApiResponses]}]]

RssOutcomes ==
    [d \in Domains |->
        {[raised   |-> fetch_rss_raises(d, feed),
          articles |-> fetch_rss_articles(d, feed)] : feed \in RssFeeds}]

GenerateQueries ==
    /\ pc = "generate"
    /\ \E r \in QueryOutcomes[domain] :
        IF r.raised
        THEN Raise("generate") /\ UNCHANGED queries
        ELSE /\ queries' = r.queries
             /\ pc' = "fetch_newsapi"
             /\ UNCHANGED result
    /\ log' = log \cup {"llm_query"}
    /\ UNCHANGED <<domain, newsapi_articles, rss_articles, articles, futures,
                   collected, relevant, final_articles, arg, ret, appVars>>

FetchNewsapi ==
    /\ pc = "fetch_newsapi"
    /\ newsapi_articles' \in NewsapiOutcomes[domain][Len(queries)]
    /\ pc' = IF domain = "tech" THEN "dedupe" ELSE "fetch_rss"
    /\ log' = IF queries = <<>> THEN log ELSE log \cup {"newsapi"}
    /\ UNCHANGED <<domain, queries, rss_articles, articles, futures, collected,
                   relevant, final_articles, result, arg, ret, appVars>>

FetchRss ==
    /\ pc = "fetch_rss"
    /\ \E r \in RssOutcomes[domain] :
        IF r.raised
        THEN Raise("fetch_rss") /\ UNCHANGED rss_articles
        ELSE /\ rss_articles' = r.articles
             /\ pc' = IF domain = "tech" THEN "generate" ELSE "dedupe"
             /\ UNCHANGED result
    /\ log' = log \cup {"rss"}
    /\ UNCHANGED <<domain, queries, newsapi_articles, articles, futures,
                   collected, relevant, final_articles, arg, ret, appVars>>

\* the list the deduplication of domain d is given, and what it makes of it
MergeInput(d, api, rss) == IF d = "tech" THEN rss \o api ELSE api \o rss

Dedupe(d, xs) == IF d = "tech" THEN deduplicate(xs) ELSE combine_dedupe(xs)

\* finance, sports: "Combine + dedupe"; tech: deduplicate(...) and the
\* `if not combined: return {}` after it
DedupeStep ==
    /\ pc = "dedupe"
    /\ articles' = Dedupe(domain, MergeInput(domain, newsapi_articles, rss_articles))
    /\ IF domain = "tech"
       THEN IF articles' = <<>> THEN ReturnEmpty
            ELSE pc' = "submit" /\ UNCHANGED result
       ELSE pc' = "sort" /\ UNCHANGED result
    /\ UNCHANGED <<domain, queries, newsapi_articles, rss_articles, futures,
                   collected, relevant, final_articles, log, arg, ret, appVars>>

\* finance, sports: "Sort by recency"; the tech agent has no such step
SortStep ==
    /\ pc = "sort"
    /\ IF SortRaises(articles)
       THEN Raise("sort") /\ UNCHANGED articles
       ELSE /\ articles' = sort_by_recency(articles)
            /\ pc' = IF HasClassifier(domain) THEN "submit" ELSE "select"
            /\ UNCHANGED result
    /\ UNCHANGED <<domain, queries, newsapi_articles, rss_articles, futures,
                   collected, relevant, final_articles, log, arg, ret, appVars>>

\* The fetched lists are not read after the candidate list is handed on to
\* classification or selection: the model forgets them there.
ForgetFetched ==
    /\ newsapi_articles' = <<>>
    /\ rss_articles' = <<>>

\* futures = {exe.submit(classify_article, a): a for a in articles}
Submit ==
    /\ pc = "submit"
    /\ futures' = [i \in 1..Len(articles) |-> "pending"]
    /\ pc' = "collect"
    /\ ForgetFetched
    /\ UNCHANGED <<domain, queries, articles, collected, relevant,
                   final_articles, result, log, arg, ret, appVars>>

\* the pool runs the tasks in submission order, MAX_LLM_WORKERS at a time:
\* task i may be running when fewer than that many unfinished tasks precede it
MayRun(i) ==
    Cardinality({j \in 1..(i - 1) : futures[j] = "pending"}) < MAX_LLM_WORKERS

\* a worker finishes classify_article for articles[i]
TaskFinish(i) ==
    /\ pc \in {"collect", "unwind"}
    /\ futures[i] = "pending"
    /\ MayRun(i)
    /\ \E call \in LlmClassifyCalls :
        futures' = [futures EXCEPT ![i] = classify_article(domain, call)]
    /\ log' = log \cup {"llm_classify"}
    /\ UNCHANGED <<domain, pc, queries, newsapi_articles, rss_articles, articles,
                   collected, relevant, final_articles, result, arg, ret, appVars>>

\* the position at which a kept record is stored in `relevant`
Keep(rel, a, i) == Append(rel, a)

\* one round of `for f in as_completed(futures)`: a finished future not yet
\* yielded; f.result() re-raises the exception of the task
Collect(i) ==
    /\ pc = "collect"
    /\ futures[i] # "pending"
    /\ \A k \in 1..Len(collected) : collected[k] # i
    /\ collected' = Append(collected, i)
    /\ relevant' = IF futures[i] = "yes" THEN Keep(relevant, articles[i], i)
                   ELSE relevant
    /\ pc' = IF futures[i] = "exc" THEN "unwind" ELSE "collect"
    /\ UNCHANGED <<domain, queries, newsapi_articles, rss_articles, articles,
                   futures, final_articles, result, log, arg, ret, appVars>>

\* a loop that stops as soon as FINAL_ARTICLES positives are collected
LoopDoneEarly ==
    /\ pc = "collect"
    /\ Len(collected) = Len(futures) \/ Len(relevant) >= FINAL_ARTICLES
    /\ IF domain = "tech" /\ relevant = <<>> THEN ReturnEmpty
       ELSE pc' = "select" /\ UNCHANGED result
    /\ UNCHANGED <<domain, queries, newsapi_articles, rss_articles, articles,
                   futures, collected, relevant, final_articles, log, arg, ret, appVars>>

\* leaving the `with` block normally; tech: `if not relevant: return {}`
LoopDone ==
    /\ pc = "collect"
    /\ Len(collected) = Len(futures)
    /\ IF domain = "tech" /\ relevant = <<>> THEN ReturnEmpty
       ELSE pc' = "select" /\ UNCHANGED result
    /\ UNCHANGED <<domain, queries, newsapi_articles, rss_articles, articles,
                   futures, collected, relevant, final_articles, log, arg, ret, appVars>>

\* leaving the `with` block by the exception: shutdown(wait=True) waits for
\* every task, then the exception leaves the run
Unwind ==
    /\ pc = "unwind"
    /\ \A i \in 1..Len(futures) : futures[i] # "pending"
    /\ Raise("classify")
    /\ UNCHANGED <<domain, queries, newsapi_articles, rss_articles, articles,
                   futures, collected, relevant, final_articles, log, arg, ret, appVars>>

\* a selection that goes on to the summary with whatever it selected
SelectWithoutEmptyCheck ==
    /\ pc = "select"
    /\ final_articles' = Take(IF HasClassifier(domain) THEN relevant ELSE articles,
                              FINAL_ARTICLES)
    /\ pc' = "summarize"
    /\ ForgetFetched
    /\ UNCHANGED <<domain, queries, articles, futures, collected, relevant,
                   result, log, arg, ret, appVars>>

\* final_articles = <list>[:FINAL_ARTICLES]; finance, sports:
\* `if not final_articles: return {}`
Select ==
    /\ pc = "select"
    /\ final_articles' = Take(IF HasClassifier(domain) THEN relevant ELSE articles,
                              FINAL_ARTICLES)
    /\ IF domain # "tech" /\ final_articles' = <<>> THEN ReturnEmpty
       ELSE pc' = "summarize" /\ UNCHANGED result
    /\ ForgetFetched
    /\ UNCHANGED <<domain, queries, articles, futures, collected, relevant,
                   log, arg, ret, appVars>>

\* the summary call: finance catches its failure ("Summary unavailable"),
\* sports and tech do not; finance first calls get_stock_price, of which the
\* model keeps only that it was called
Summarize ==
    /\ pc = "summarize"
    /\ \E ok \in BOOLEAN :
        IF ~ok /\ domain # "finance" THEN Raise("summarize")
        ELSE pc' = "done" /\ result' = Result("populated", "")
    /\ log' = log \cup (IF domain = "finance" THEN {"stock", "llm_summary"}
                        ELSE {"llm_summary"})
    /\ UNCHANGED <<domain, queries, newsapi_articles, rss_articles, articles,
                   futures, collected, relevant, final_articles, arg, ret, appVars>>

Next ==
    \/ GenerateQueries
    \/ FetchNewsapi
    \/ FetchRss
    \/ DedupeStep
    \/ SortStep
    \/ Submit
    \/ \E i \in 1..Len(futures) : TaskFinish(i)
    \/ \E i \in 1..Len(futures) : Collect(i)
    \/ LoopDone
    \/ Unwind
    \/ Select
    \/ Summarize

Spec == Init /\ [][Next]_vars

---------------------------------------------------------------------------
(* The deduplication functions on arbitrary lists                          *)

DedupRecords ==
    [title : {"a"}, url : {"u1", "u2", None, ""}, published : {NoDate},
     source : {"newsapi", "rss"}]

InitDedup ==
    /\ domain = "none"
    /\ pc = "idle"
    /\ queries = <<>>
    /\ newsapi_articles = <<>>
    /\ rss_articles = <<>>
    /\ articles = <<>>
    /\ futures = <<>>
    /\ collected = <<>>
    /\ relevant = <<>>
    /\ final_articles = <<>>
    /\ result = Running
    /\ log = {}
    /\ arg \in SeqsUpTo(DedupRecords, MaxDedupLen)
    /\ ret = NoOut
    /\ NotStarted

ApplyCombineDedupe ==
    /\ ret = NoOut
    /\ ret' = [fn |-> "combine_dedupe", out |-> combine_dedupe(arg)]
    /\ UNCHANGED <<arg, pipeVars, appVars>>

ApplyDeduplicate ==
    /\ ret = NoOut
    /\ ret' = [fn |-> "deduplicate", out |-> deduplicate(arg)]
    /\ UNCHANGED <<arg, pipeVars, appVars>>

ApplyDeduplicateArticles ==
    /\ ret = NoOut
    /\ ret' = [fn |-> "deduplicate_articles", out |-> deduplicate_articles(arg)]
    /\ UNCHANGED <<arg, pipeVars, appVars>>

NextDedup ==
    \/ ApplyCombineDedupe
    \/ ApplyDeduplicate
    \/ ApplyDeduplicateArticles

SpecDedup == InitDedup /\ [][NextDedup]_vars

---------------------------------------------------------------------------
(* Query generation on arbitrary model responses                           *)

InitQuery ==
    /\ domain = "none"
    /\ pc = "idle"
    /\ queries = <<>>
    /\ newsapi_articles = <<>>
    /\ rss_articles = <<>>
    /\ articles = <<>>
    /\ futures = <<>>
    /\ collected = <<>>
    /\ relevant = <<>>
    /\ final_articles = <<>>
    /\ result = Running
    /\ log = {}
    /\ arg \in [domain : Domains, call : LlmQueryCalls]
    /\ ret = NoOut
    /\ NotStarted

ApplyGenerateQueries ==
    /\ ret = NoOut
    /\ ret' = [fn |-> "generate_queries", out |-> generate_queries(arg.domain, arg.call)]
    /\ UNCHANGED <<arg, pipeVars, appVars>>

NextQuery == ApplyGenerateQueries

SpecQuery == InitQuery /\ [][NextQuery]_vars

---------------------------------------------------------------------------
(* Properties                                                              *)

\* the candidate list is complete and about to be classified (sports, tech)
\* or truncated (finance)
HandedOver ==
    \/ HasClassifier(domain) /\ pc = "submit"
    \/ domain = "finance" /\ pc = "select"

\* the positives of the candidate list in rank order
RECURSIVE PositivesInOrder(_, _)
PositivesInOrder(xs, verdicts) ==
    IF xs = <<>> THEN <<>>
    ELSE (IF Head(verdicts) = "yes" THEN <<Head(xs)>> ELSE <<>>)
             \o PositivesInOrder(Tail(xs), Tail(verdicts))

\* C1: in sports and tech, whatever order the classification tasks finish
\* in, the kept positives are the positives of the ranked list in their
\* original relative order.
C1_PositivesKeepRankOrder ==
    (HasClassifier(domain) /\ pc = "select")
        => relevant = PositivesInOrder(articles, futures)

\* C2: classification is fail-closed: a failed model call gives that record a
\* negative verdict, no task ends with an exception and no run is aborted by
\* classification.
C2_ClassificationFailClosed ==
    /\ \A i \in 1..Len(futures) : futures[i] # "exc"
    /\ pc # "unwind"
    /\ result # Result("raised", "classify")

\* the responses for which query generation has to degrade to the fallback:
\* the call failed, no bracketed array, or an array text that does not parse
Degraded(call) ==
    \/ ~call.ok
    \/ RegexSearchArray(call.content) = <<>>
    \/ ~JsonLoadsArray(RegexSearchArray(call.content)).ok

\* C3: in each domain, query generation never raises, and on a failed call, a
\* response without bracketed array or an array that does not parse it
\* returns exactly the domain's single fallback query.
C3_QueryGenerationNeverRaises ==
    ret.fn = "generate_queries"
        => /\ ~ret.out.raised
           /\ Degraded(arg.call) => ret.out.queries = FallbackQuery(arg.domain)

\* C4: for every model response, the query list that query generation
\* returns for the search-API fetch has at least one element.
C4_QueriesNonEmpty ==
    (ret.fn = "generate_queries" /\ ~ret.out.raised) => Len(ret.out.queries) >= 1

\* C5: every deduplication (the inline one of finance and sports, the tech
\* agent's deduplicate, the shared deduplicate_articles) outputs at most one
\* record per url and no record whose url is None or empty.
C5_DedupUniqueNonEmptyUrls ==
    ret.fn # "none"
        => /\ \A i, j \in 1..Len(ret.out) : i # j => ret.out[i].url # ret.out[j].url
           /\ \A i \in 1..Len(ret.out) : ~Falsy(ret.out[i].url)

\* the input holds two different records with the same usable url
Collision(xs) ==
    \E i, j \in 1..Len(xs) : i < j /\ xs[i].url = xs[j].url /\ xs[i] # xs[j]
                                   /\ ~Falsy(xs[i].url)

\* C5 witness: the tech deduplicate has run on a list with a collision and a
\* record without url, and kept something.
C5_Witness ==
    /\ ret.fn = "deduplicate"
    /\ Collision(arg)
    /\ \E k \in 1..Len(arg) : Falsy(arg[k].url)
    /\ ret.out # <<>>

\* the records of xs with the url of r
SameUrl(xs, r) == {i \in 1..Len(xs) : xs[i].url = r.url}

LastWins(xs, out) ==
    \A k \in 1..Len(out) :
        \E i \in SameUrl(xs, out[k]) :
            out[k] = xs[i] /\ \A j \in SameUrl(xs, out[k]) : j <= i

FirstWins(xs, out) ==
    \A k \in 1..Len(out) :
        \E i \in SameUrl(xs, out[k]) :
            out[k] = xs[i] /\ \A j \in SameUrl(xs, out[k]) : i <= j

\* C6 as stated: in every deduplication the record that survives a url
\* collision is the one later in input order.
C6_LastWriteWinsEverywhere == ret.fn # "none" => LastWins(arg, ret.out)

\* C6 as amended: the later record survives in the inline deduplication of
\* the finance and sports agents; the earlier record survives in the tech
\* agent's deduplicate and in deduplicate_articles.
C6_SurvivorByFunction ==
    /\ ret.fn = "combine_dedupe" => LastWins(arg, ret.out)
    /\ ret.fn \in {"deduplicate", "deduplicate_articles"} => FirstWins(arg, ret.out)

\* C6 witness: the inline deduplication has run on a list with a collision.
C6_Witness == ret.fn = "combine_dedupe" /\ Collision(arg)

Key(a) == parse_date_safe(a.published).ts

Parseable(a) == a.published.kind = "date"

\* the candidate list before the ranking step
PreSort == Dedupe(domain, MergeInput(domain, newsapi_articles, rss_articles))

IndexIn(xs, a) == CHOOSE i \in 1..Len(xs) : xs[i] = a

\* C7: in every domain, the list handed from ranking to classification or
\* truncation is in non-increasing order of parsed timestamp, records without
\* a parseable date come after all records with one, and records with equal
\* timestamps keep their order from before the sort.
C7_HandedOverListIsRanked ==
    HandedOver
        => /\ \A i, j \in 1..Len(articles) : i < j => Key(articles[i]) >= Key(articles[j])
           /\ \A i, j \in 1..Len(articles) :
                  (~Parseable(articles[i]) /\ Parseable(articles[j])) => j < i
           /\ \A i, j \in 1..Len(PreSort) :
                  (i < j /\ Key(PreSort[i]) = Key(PreSort[j]))
                      => IndexIn(articles, PreSort[i]) < IndexIn(articles, PreSort[j])

\* the end-to-end scenario: one search-API article and two feed entries
ScenarioApi ==
    <<[ok |-> TRUE,
       articles |-> <<[title |-> " a ", url |-> "u1", link |-> None,
                       published |-> Date(20240102, FALSE)]>>]>>

ScenarioRss ==
    <<[title |-> "b", url |-> None, link |-> "u1", published |-> Date(20240105, FALSE)],
      [title |-> "b", url |-> None, link |-> "u2", published |-> Date(20240101, FALSE)]>>

InScenario ==
    /\ newsapi_articles = fetch_newsapi_articles(domain, ScenarioApi)
    /\ rss_articles = fetch_rss_articles(domain, ScenarioRss)

\* C8: with the search API returning u1 published 2024-01-02 and the feed
\* returning u1 published 2024-01-05 and u2 published 2024-01-01, the merged,
\* deduplicated and ranked list is [u1, u2] and u1 is the feed's record:
\* published 2024-01-05, source rss.
C8_EndToEndMerge ==
    (HandedOver /\ InScenario)
        => /\ Len(articles) = 2
           /\ articles[1].url = "u1"
           /\ articles[2].url = "u2"
           /\ articles[1].published = Date(20240105, FALSE)
           /\ articles[1].source = "rss"

\* C9: every run performs the RSS fetch.
C9_RssAlwaysFetched == pc = "done" => "rss" \in log

\* C10: neither fetch_newsapi_articles nor fetch_rss_articles raises into the
\* run, whatever the raw records are.
C10_FetchNeverRaises ==
    /\ result # Result("raised", "fetch_rss")
    /\ result # Result("raised", "fetch_newsapi")

\* the list the selection stage truncates
Candidates == IF HasClassifier(domain) THEN relevant ELSE articles

\* the run got as far as its selection stage: it returned, or it is at (or
\* failed in) the summary that follows selection
SelectionReached ==
    \/ result.kind \in {"empty", "populated"}
    \/ pc = "summarize"
    \/ result = Result("raised", "summarize")

\* C11: a run whose selection stage has zero candidates returns {} and does
\* not invoke the summarizer.
C11_ZeroCandidatesReturnEmpty ==
    (SelectionReached /\ Candidates = <<>>)
        => /\ result = Result("empty", "")
           /\ "llm_summary" \notin log

\* C11 witness: a run with a classifier has classified a non-empty candidate
\* list, found no positive and returned.
C11_Witness ==
    /\ pc = "done"
    /\ HasClassifier(domain)
    /\ articles # <<>>
    /\ Len(collected) = Len(articles)
    /\ relevant = <<>>
    /\ result.kind # "raised"

---------------------------------------------------------------------------
(* The selection stage on candidate lists longer than FINAL_ARTICLES       *)

MaxSelectLen == 7

\* a candidate as the earlier stages leave it: its own url, no date
Candidate(i, source) ==
    [title |-> "a", url |-> "u" \o ToString(i), published |-> NoDate,
     source |-> source]

\* the candidate lists of n records
CandidateLists(n) ==
    {[i \in 1..n |-> Candidate(i, s[i])] : s \in [1..n -> {"newsapi", "rss"}]}

\* a run that has come to `final_articles = ...[:FINAL_ARTICLES]`: in finance
\* with the ranked list, in sports and tech with every record classified
\* positive and collected in list order (tech is there only with a positive)
InitSelect ==
    /\ domain \in Domains
    /\ pc = "select"
    /\ queries = <<>>
    /\ newsapi_articles = <<>>
    /\ rss_articles = <<>>
    /\ \E n \in (IF domain = "tech" THEN 1 ELSE 0)..MaxSelectLen :
        /\ articles \in CandidateLists(n)
        /\ futures = IF HasClassifier(domain) THEN [i \in 1..n |-> "yes"] ELSE <<>>
        /\ collected = IF HasClassifier(domain) THEN [i \in 1..n |-> i] ELSE <<>>
    /\ relevant = IF HasClassifier(domain) THEN articles ELSE <<>>
    /\ final_articles = <<>>
    /\ result = Running
    /\ log = {}
    /\ arg = <<>>
    /\ ret = NoOut
    /\ NotStarted

NextSelect ==
    \/ Select
    \/ Summarize

SpecSelect == InitSelect /\ [][NextSelect]_vars

\* C12: truncation keeps the first min(len(input), FINAL_ARTICLES) records of
\* its input in their order, and a populated result carries between 1 and
\* FINAL_ARTICLES articles.
C12_TruncationKeepsHead ==
    /\ SelectionReached =>
        /\ Len(final_articles) =
               (IF Len(Candidates) < FINAL_ARTICLES THEN Len(Candidates)
                ELSE FINAL_ARTICLES)
        /\ \A i \in 1..Len(final_articles) : final_articles[i] = Candidates[i]
    /\ result.kind = "populated" =>
        (1 <= Len(final_articles) /\ Len(final_articles) <= FINAL_ARTICLES)

\* C12 witness: a run given more candidates than FINAL_ARTICLES has returned
\* a populated result.
C12_Witness ==
    /\ result.kind = "populated"
    /\ Len(Candidates) > FINAL_ARTICLES
    /\ Len(final_articles) = FINAL_ARTICLES

---------------------------------------------------------------------------

\* C13: every run ends by returning {} or a populated result, whichever
\* external call fails; no exception leaves the run.
C13_RunEndsInTerminalState ==
    pc = "done" => result.kind \in {"empty", "populated"}

---------------------------------------------------------------------------
(* Classification of candidate lists longer than FINAL_ARTICLES            *)

MaxClassifyLen == 7

MaxPending == 3

ClassifierDomains == {d \in Domains : HasClassifier(d)}

\* the candidate list of n records that classification is given
ClassifyInput(d, n) ==
    [i \in 1..n |-> Candidate(i, IF d = "tech" THEN None ELSE "rss")]

\* A run of sports or tech at its classification stage with n candidates: at
\* the submit when k = 0, else in the as_completed loop with the first k
\* tasks finished positive and collected in list order and the others
\* pending.
InitClassify ==
    /\ domain \in ClassifierDomains
    /\ queries = FallbackQuery(domain)
    /\ newsapi_articles = <<>>
    /\ rss_articles = <<>>
    /\ \E n \in 1..MaxClassifyLen : \E k \in 0..n :
        /\ n - k <= MaxPending
        /\ articles = ClassifyInput(domain, n)
        /\ pc = IF k = 0 THEN "submit" ELSE "collect"
        /\ futures = IF k = 0 THEN <<>>
                     ELSE [i \in 1..n |-> IF i <= k THEN "yes" ELSE "pending"]
        /\ collected = [i \in 1..k |-> i]
        /\ relevant = SubSeq(articles, 1, k)
        /\ log = {"llm_query", "newsapi", "rss"}
                     \cup (IF k = 0 THEN {} ELSE {"llm_classify"})
    /\ final_articles = <<>>
    /\ result = Running
    /\ arg = <<>>
    /\ ret = NoOut
    /\ NotStarted

NextClassify ==
    \/ Submit
    \/ \E i \in 1..Len(futures) : TaskFinish(i)
    \/ \E i \in 1..Len(futures) : Collect(i)
    \/ LoopDone
    \/ Unwind
    \/ Select
    \/ Summarize

SpecClassify == InitClassify /\ [][NextClassify]_vars

\* the run is past its classification stage: truncating, summarizing, or
\* ended after it had dispatched the classifications
PastClassification ==
    \/ pc \in {"select", "summarize"}
    \/ pc = "done" /\ futures # <<>>

\* the `with` block was left normally, not by an exception of f.result()
LoopCompleted == PastClassification /\ result # Result("raised", "classify")

\* C14: with a classifier, no classification task is pending once the run
\* is past the classification stage, and when truncation starts every record
\* of the candidate list has been classified and its verdict collected,
\* however many positives were found on the way.
C14_AllClassifiedBeforeTruncation ==
    HasClassifier(domain) =>
        /\ PastClassification =>
            /\ Len(futures) = Len(articles)
            /\ \A i \in 1..Len(futures) : futures[i] # "pending"
        /\ LoopCompleted =>
            \A i \in 1..Len(articles) : \E k \in 1..Len(collected) : collected[k] = i

\* C14 witness: FINAL_ARTICLES positives had been collected while tasks were
\* still pending, the remaining tasks ran, one more positive was found, and
\* the run went on to truncate.
C14_Witness ==
    /\ HasClassifier(domain)
    /\ pc = "summarize"
    /\ Len(relevant) > FINAL_ARTICLES
    /\ \E i \in 1..Len(futures) : futures[i] = "no"

---------------------------------------------------------------------------
(* The two fetches on responses and feeds longer than their caps           *)

MaxFetchQueries == 2

MaxFeedCount == 2

MaxEntries == 11

\* the j-th article of the response to the i-th query
ApiArticle(i, j) ==
    [title |-> " a ", url |-> "q" \o ToString(i) \o "a" \o ToString(j),
     link |-> None, published |-> Date(20240102, FALSE)]

\* the j-th entry of the i-th feed
RssEntry(i, j) ==
    [title |-> "b", url |-> None, link |-> "f" \o ToString(i) \o "e" \o ToString(j),
     published |-> NoDate]

\* the outcome of the call for the i-th query: an exception (n < 0) or a
\* response of n articles
ApiResponse(i, n) ==
    IF n < 0 THEN [ok |-> FALSE, articles |-> <<>>]
    ELSE [ok |-> TRUE, articles |-> [j \in 1..n |-> ApiArticle(i, j)]]

\* the i-th feed as parsed, with n entries
Feed(i, n) == [j \in 1..n |-> RssEntry(i, j)]

\* how many feeds fetch_rss_articles reads: get_rss_feeds() of the sports
\* agent returns a list (none, one or several), finance and tech have one
FeedCounts(d) == IF d = "sports" THEN 0..MaxFeedCount ELSE {1}

\* fetch_rss_articles over the list of feeds: each feed is cut at MAX_RSS
\* entries and its records are appended
fetch_rss_feeds(d, feeds) ==
    Flatten([i \in 1..Len(feeds) |-> fetch_rss_articles(d, feeds[i])])

\* the outcomes of the calls for n queries
NewsapiArgs(n) ==
    {[fn |-> "fetch_newsapi_articles", domain |-> d,
      input |-> [i \in 1..n |-> ApiResponse(i, ls[i])]] :
        d \in Domains, ls \in [1..n -> -1..MaxEntries]}

\* k parsed feeds, in the domains that read k feeds
RssArgs(k) ==
    {[fn |-> "fetch_rss_articles", domain |-> d,
      input |-> [i \in 1..k |-> Feed(i, ls[i])]] :
        d \in {e \in Domains : k \in FeedCounts(e)},
        ls \in [1..k -> 0..MaxEntries]}

InitFetch ==
    /\ domain = "none"
    /\ pc = "idle"
    /\ queries = <<>>
    /\ newsapi_articles = <<>>
    /\ rss_articles = <<>>
    /\ articles = <<>>
    /\ futures = <<>>
    /\ collected = <<>>
    /\ relevant = <<>>
    /\ final_articles = <<>>
    /\ result = Running
    /\ log = {}
    /\ \/ \E n \in 0..MaxFetchQueries : arg \in NewsapiArgs(n)
       \/ \E k \in 0..MaxFeedCount : arg \in RssArgs(k)
    /\ ret = NoOut
    /\ NotStarted

ApplyFetchNewsapi ==
    /\ ret = NoOut
    /\ arg.fn = "fetch_newsapi_articles"
    /\ ret' = [fn |-> arg.fn, out |-> fetch_newsapi_articles(arg.domain, arg.input)]
    /\ UNCHANGED <<arg, pipeVars, appVars>>

ApplyFetchRss ==
    /\ ret = NoOut
    /\ arg.fn = "fetch_rss_articles"
    /\ ret' = [fn |-> arg.fn, out |-> fetch_rss_feeds(arg.domain, arg.input)]
    /\ UNCHANGED <<arg, pipeVars, appVars>>

NextFetch ==
    \/ ApplyFetchNewsapi
    \/ ApplyFetchRss

SpecFetch == InitFetch /\ [][NextFetch]_vars


\* the sum of the first i elements of a sequence of numbers
RECURSIVE SumTo(_, _)
SumTo(ns, i) == IF i = 0 THEN 0 ELSE SumTo(ns, i - 1) + ns[i]

\* how many records each query's response holds, and each feed's first
\* MAX_RSS entries
ApiCounts(resp) ==
    [i \in 1..Len(resp) |-> IF resp[i].ok THEN Len(resp[i].articles) ELSE 0]

FeedCountsCapped(feeds) ==
    [i \in 1..Len(feeds) |->
        IF Len(feeds[i]) < MAX_RSS THEN Len(feeds[i]) ELSE MAX_RSS]

\* C15: the search-API fetch returns the first MAX_NEWSAPI records of the
\* concatenation, in query order, of what the queries returned (all of it
\* when it is shorter); the RSS fetch returns, feed after feed, the first
\* MAX_RSS entries of each feed, at most MAX_RSS times the number of feeds.
C15_GlobalCapVersusPerFeedCap ==
    /\ ret.fn = "fetch_newsapi_articles" =>
        LET ns    == ApiCounts(arg.input)
            total == SumTo(ns, Len(ns))
        IN  /\ Len(ret.out) = (IF total < MAX_NEWSAPI THEN total ELSE MAX_NEWSAPI)
            /\ \A i \in 1..Len(ns) : \A j \in 1..ns[i] :
                 LET p == SumTo(ns, i - 1) + j
                 IN  p <= MAX_NEWSAPI => ret.out[p].url = arg.input[i].articles[j].url
    /\ ret.fn = "fetch_rss_articles" =>
        LET ns == FeedCountsCapped(arg.input)
        IN  /\ Len(ret.out) = SumTo(ns, Len(ns))
            /\ Len(ret.out) <= Len(arg.input) * MAX_RSS
            /\ \A i \in 1..Len(ns) : \A j \in 1..ns[i] :
                 ret.out[SumTo(ns, i - 1) + j].url = arg.input[i][j].link

\* C15 witness: fetch_rss_articles has read two feeds of more than MAX_RSS
\* entries each and returned 2 * MAX_RSS records, more than MAX_RSS.
C15_Witness ==
    /\ ret.fn = "fetch_rss_articles"
    /\ Len(arg.input) = 2
    /\ \A i \in 1..2 : Len(arg.input[i]) > MAX_RSS
    /\ Len(ret.out) = 2 * MAX_RSS

---------------------------------------------------------------------------
(* main(): one digest cycle at startup, then the interval job; and the     *)
(* scheduling helpers of core/scheduler.py                                 *)

MaxTicks == 3

\* How an invocation of run_news_digest (graphs/news_digest_graph) ends: it
\* returns without a digest, returns with one, or an exception leaves it.
CycleOutcomes == {"empty", "populated", "raised"}

\* an invocation of run_news_digest that has just been entered
NewCycle(by) == [state |-> "START", by |-> by]

AppUnchangedPipeline == UNCHANGED <<arg, ret, pipeVars>>

InitMain ==
    /\ domain = "none"
    /\ pc = "idle"
    /\ queries = <<>>
    /\ newsapi_articles = <<>>
    /\ rss_articles = <<>>
    /\ articles = <<>>
    /\ futures = <<>>
    /\ collected = <<>>
    /\ relevant = <<>>
    /\ final_articles = <<>>
    /\ result = Running
    /\ log = {}
    /\ arg = <<>>
    /\ ret = NoOut
    /\ NotStarted

\* main.py:31, "Run once at startup": main() calls run_news_digest() itself
RunAtStartup ==
    /\ main_pc = "not_started"
    /\ main_pc' = "startup_run"
    /\ cycle' = NewCycle("startup")
    /\ UNCHANGED <<scheduler, _scheduler, runs>>
    /\ AppUnchangedPipeline

\* The invocation in flight ends.  Called by main(), its return lets main()
\* go on and its exception leaves main(), which has no try around the call.
\* Called by the scheduler, the job's exception is caught and logged by the
\* scheduler's executor and the job stays scheduled.
CycleEnds ==
    /\ cycle.state = "START"
    /\ \E outcome \in CycleOutcomes :
        /\ runs' = Append(runs, [by |-> cycle.by, outcome |-> outcome])
        /\ main_pc' = IF cycle.by # "startup" THEN main_pc
                      ELSE IF outcome = "raised" THEN "crashed"
                      ELSE "add_job"
    /\ cycle' = NoCycle
    /\ UNCHANGED <<scheduler, _scheduler>>
    /\ AppUnchangedPipeline

\* main.py:34-41: scheduler = BlockingScheduler(...); scheduler.add_job(...,
\* id="news_digest_job", replace_existing=True)
AddJob ==
    /\ main_pc = "add_job"
    /\ scheduler' = [scheduler EXCEPT !.jobs = @ \cup {"news_digest_job"}]
    /\ main_pc' = "start"
    /\ UNCHANGED <<_scheduler, cycle, runs>>
    /\ AppUnchangedPipeline

\* main.py:46: scheduler.start() blocks in the scheduler's loop
StartBlocking ==
    /\ main_pc = "start"
    /\ scheduler' = [scheduler EXCEPT !.running = TRUE]
    /\ main_pc' = "blocked"
    /\ UNCHANGED <<_scheduler, cycle, runs>>
    /\ AppUnchangedPipeline

\* The interval trigger fires: the running scheduler calls the job, a new
\* invocation of run_news_digest.  A tick that finds the previous invocation
\* still running is skipped (one instance per job).
Tick ==
    /\ scheduler.running
    /\ "news_digest_job" \in scheduler.jobs
    /\ cycle = NoCycle
    /\ Len(runs) <= MaxTicks
    /\ cycle' = NewCycle("tick")
    /\ UNCHANGED <<main_pc, scheduler, _scheduler, runs>>
    /\ AppUnchangedPipeline

\* the process is alive
Alive == main_pc \notin {"not_started", "crashed"}

\* core/scheduler.py schedule_job(job_func, cron, job_id); no module of the
\* sources calls it, the model lets the live process call it at any time
schedule_job(job_id) ==
    /\ Alive
    /\ _scheduler' = [_scheduler EXCEPT !.jobs = @ \cup {job_id}]
    /\ UNCHANGED <<main_pc, scheduler, cycle, runs>>
    /\ AppUnchangedPipeline

\* core/scheduler.py start_scheduler()
start_scheduler ==
    /\ Alive
    /\ _scheduler' = IF ~_scheduler.running
                     THEN [_scheduler EXCEPT !.running = TRUE]
                     ELSE _scheduler
    /\ UNCHANGED <<main_pc, scheduler, cycle, runs>>
    /\ AppUnchangedPipeline

NextMain ==
    \/ RunAtStartup
    \/ CycleEnds
    \/ AddJob
    \/ StartBlocking
    \/ Tick
    \/ schedule_job("news_digest_job")
    \/ start_scheduler

SpecMain == InitMain /\ [][NextMain]_vars

\* the one-shot run at startup has failed
StartupRunFailed == runs # <<>> /\ runs[1] = [by |-> "startup", outcome |-> "raised"]

\* C16: no cycle is run again without a new tick (the startup run is the
\* only one not started by a tick); once the interval job is scheduled, a
\* tick can start a new cycle whatever the ended cycles were; and a failed
\* startup run does not keep main() from scheduling the interval job.
C16_TicksAfterEveryOutcome ==
    /\ \A i \in 2..Len(runs) : runs[i].by = "tick"
    /\ (main_pc = "blocked" /\ cycle = NoCycle /\ Len(runs) <= MaxTicks)
           => ENABLED Tick
    /\ (StartupRunFailed /\ cycle = NoCycle)
           => main_pc \in {"add_job", "start", "blocked"}

===========================================================================
